---- MODULE Spec2Model ----
(***************************************************************************)
(* alphaStral: decision agents playing Pokemon Showdown matches.           *)
(*                                                                         *)
(* The module models                                                       *)
(*   - bot/agents/_shared.py : _random_fallback, _parse_action and the     *)
(*     LLMBattleAgent base class (memory, throttle, telemetry),            *)
(*   - bot/agents/mistral.py, bot/agents/random.py : the two agents that   *)
(*     do not derive from LLMBattleAgent,                                  *)
(*   - bot/parser.py, bot/player.py : ActionParser and AgentPlayer,        *)
(*   - bot/extractor.py : StateExtractor.extract,                          *)
(*   - benchmark/runner.py, benchmark/export.py, main.py : one run of      *)
(*     BattleRunner, the report's figures, the agent registry,             *)
(*   - finetune/scraper.py : the two PokeAPI caches under threads.         *)
(*                                                                         *)
(* Texts are modelled by their shape.  A response text is a record         *)
(* [lead, body]: lead says whether non-blank prose (a sentence, a markdown *)
(* fence) surrounds the body, and body is the only part of the text that   *)
(* holds brackets or braces.  json_loads and re_search are computed on     *)
(* that shape the way json.loads and re.search(r"\{.*\}") act on the text. *)
(*                                                                         *)
(* LLMBattleAgent.choose_action reads state.battle_tag and passes the      *)
(* keywords reasoning, move_id and effectiveness to TurnStat, which        *)
(* bot/schema.py and benchmark/types.py of this revision do not declare.   *)
(* TaggedState and TurnStat give the snapshot and the row the shape that   *)
(* choose_action uses; reasoning and effectiveness, which no property      *)
(* reads, are left out of actions and rows.                                *)
(***************************************************************************)
EXTENDS Integers, Sequences, FiniteSets, TLC

VARIABLES
    now,            \* time.perf_counter(), in ticks
    throttle_s,     \* LLMBattleAgent._throttle_s
    last_call_end,  \* LLMBattleAgent._last_call_end
    current_tag,    \* LLMBattleAgent._current_tag
    last_exchange,  \* LLMBattleAgent._last_exchange
    turn_stats,     \* LLMBattleAgent._turn_stats
    calls,          \* number of choose_action calls made on the LLM agent
    exch_tag,       \* tag of the call that stored last_exchange
    other,          \* the fields of the LLM agent instance self does not name
    scraper,        \* finetune/scraper.py: caches, locks and calling threads
    run,            \* BattleRunner._run_async: its locals and the two players
    last            \* observation of the most recent operation

vars == <<now, throttle_s, last_call_end, current_tag, last_exchange,
          turn_stats, calls, exch_tag, other, scraper, run, last>>

agent_vars == <<now, throttle_s, last_call_end, current_tag, last_exchange,
                turn_stats, calls, exch_tag, other, scraper>>

----------------------------------------------------------------------------
(* Bounds *)

\* choose_action calls made on one agent
MaxCalls == 3
\* last value of the clock
MaxTime == 9
\* longest backend call, in ticks
MaxDur == 1
\* longest oversleep of time.sleep, in ticks
MaxJitter == 1
\* largest n_battles of a run
MaxGames == 2
\* smallest n_battles of a run, negated (--n is any int)
MaxNegative == 1
\* turns of one match
MaxTurns == 2
\* run() calls made on one runner
MaxRuns == 2
\* turn_stats rows of a report given to write_report
MaxRows == 2
\* pieces an agent name is put together from
MaxPieces == 5
\* members of the player's team
MaxTeam == 2
\* revealed members of the opponent's team
MaxOpp == 2
\* threads calling the scraper's fetch functions
MaxThreads == 2
\* fetch_pokemon_data and fetch_move_data calls of a behaviour
MaxFetches == 3

(* Program constants *)

\* throttle_s: float = 2.0
DefaultThrottle == 2
\* if len(safe) <= 18
MaxUsername == 18
\* if len(prefix) > 11
MaxPrefix == 11
\* p[:3]
SegmentLen == 3
\* [0-9a-f]{6}
TagLen == 6

----------------------------------------------------------------------------
(* Values *)

Absent == "<absent>"
None == "<None>"

SeqToSet(s) == {s[i] : i \in 1..Len(s)}

\* str.strip() on the texts the model uses
strip(s) ==
    CASE s = " tackle " -> "tackle"
      [] s = " pikachu " -> "pikachu"
      [] OTHER -> s

\* the dataclasses MoveAction and SwitchAction (reasoning left out)
MoveAction(move_id, tera) ==
    [cls |-> "MoveAction", move_id |-> move_id, switch_to |-> "", tera |-> tera]

SwitchAction(switch_to) ==
    [cls |-> "SwitchAction", move_id |-> "", switch_to |-> switch_to, tera |-> FALSE]

NoAction == [cls |-> "NoneType", move_id |-> "", switch_to |-> "", tera |-> FALSE]

\* the fields of the dataclass BattleState that the agents read
BattleState(turn, moves, switches, can_tera) ==
    [turn |-> turn, moves |-> moves, switches |-> switches, can_tera |-> can_tera]

\* a BattleState that also has the attribute battle_tag, which
\* LLMBattleAgent.choose_action reads; "" stands for a falsy tag
TaggedState(tag, turn, moves, switches, can_tera) ==
    [battle_tag |-> tag, turn |-> turn, moves |-> moves, switches |-> switches,
     can_tera |-> can_tera]

NoState == BattleState(0, <<>>, <<>>, FALSE)

----------------------------------------------------------------------------
(* JSON texts *)

JsonObject(action_type, move_id, switch_to, tera) ==
    [action_type |-> action_type, move_id |-> move_id, switch_to |-> switch_to,
     tera |-> tera]

EmptyObject == JsonObject(Absent, Absent, Absent, Absent)

\* body kinds: "none" no bracket at all, "obj" one well-formed object,
\* "badobj" a brace span that is no JSON, "arr" an array without braces,
\* "arrobj" an array holding one object, "scalar" a JSON string or number
Raw(lead, k, obj) == [lead |-> lead, body |-> [k |-> k, obj |-> obj]]

EmptyText == Raw(FALSE, "none", EmptyObject)

\* json.loads(text): the value, or JSONDecodeError
json_loads(raw) ==
    IF ~raw.lead /\ raw.body.k \in {"obj", "arr", "arrobj", "scalar"}
    THEN [ok |-> TRUE,
          ty |-> CASE raw.body.k = "obj" -> "dict"
                   [] raw.body.k \in {"arr", "arrobj"} -> "list"
                   [] OTHER -> "scalar",
          val |-> raw.body.obj]
    ELSE [ok |-> FALSE, ty |-> "JSONDecodeError", val |-> EmptyObject]

\* re.search(r"\{.*\}", text, re.DOTALL): the span from the first "{" to the
\* last "}", as a text of its own, or no match
re_search(raw) ==
    IF raw.body.k \in {"obj", "arrobj"}
    THEN [found |-> TRUE, group |-> Raw(FALSE, "obj", raw.body.obj)]
    ELSE IF raw.body.k = "badobj"
    THEN [found |-> TRUE, group |-> Raw(FALSE, "badobj", raw.body.obj)]
    ELSE [found |-> FALSE, group |-> EmptyText]

\* dict.get(key, default)
get(data, key, default) == IF data[key] = Absent THEN default ELSE data[key]

\* any value given for the key taken as a request
bool_tera_if_present(data) == data["tera"] # Absent

\* bool(data.get("tera", False)): false and a missing key are falsy, true and
\* a non-empty string are truthy
bool_tera(data) == get(data, "tera", "false") \notin {"false"}

----------------------------------------------------------------------------
(* bot/agents/_shared.py: _random_fallback and _parse_action *)

\* an operation's result: the action it returned, or the exception it raised;
\* fb tells whether the action came out of _random_fallback
Returned(action, fb) == [raised |-> FALSE, exc |-> "", action |-> action, fb |-> fb]

Raised(exc) == [raised |-> TRUE, exc |-> exc, action |-> NoAction, fb |-> FALSE]

\* options = [MoveAction(m) for m in moves] + [SwitchAction(s) for s in switches]
options(state) ==
    [i \in 1..(Len(state.moves) + Len(state.switches)) |->
        IF i <= Len(state.moves)
        THEN MoveAction(state.moves[i], FALSE)
        ELSE SwitchAction(state.switches[i - Len(state.moves)])]

\* _random_fallback(state): the actions random.choice may return
random_fallback(state) ==
    IF options(state) = <<>>
    THEN {MoveAction("struggle", FALSE)}
    ELSE SeqToSet(options(state))

\* the move check left out
move_legal_skipped(move_id, state) == TRUE

\* "move_id not in state.moves" / "switch_to not in state.switches", negated
move_legal(move_id, state) == move_id \in SeqToSet(state.moves)

switch_legal(switch_to, state) == switch_to \in SeqToSet(state.switches)

\* the flag as the model asked for it
tera_flag_unchecked(data, state) == bool_tera(data)

\* tera = bool(data.get("tera", False)) and state.can_tera
tera_flag(data, state) == bool_tera(data) /\ state.can_tera

\* lines 191-202: strict parse, then the parse of the regex span; ok = FALSE
\* stands for the two "falling back" returns
load_data(raw) ==
    IF json_loads(raw).ok
    THEN json_loads(raw)
    ELSE IF ~re_search(raw).found
    THEN [ok |-> FALSE, ty |-> "no match", val |-> EmptyObject]
    ELSE json_loads(re_search(raw).group)

\* lines 204-241, for data a dict
parse_dict(data, state) ==
    IF get(data, "action_type", None) = "move"
    THEN IF ~move_legal(strip(get(data, "move_id", "")), state)
         THEN {Returned(a, TRUE) : a \in random_fallback(state)}
         ELSE {Returned(MoveAction(strip(get(data, "move_id", "")),
                                   tera_flag(data, state)), FALSE)}
    ELSE IF get(data, "action_type", None) = "switch"
    THEN IF ~switch_legal(strip(get(data, "switch_to", "")), state)
         THEN {Returned(a, TRUE) : a \in random_fallback(state)}
         ELSE {Returned(SwitchAction(strip(get(data, "switch_to", ""))), FALSE)}
    ELSE {Returned(a, TRUE) : a \in random_fallback(state)}

\* _parse_action(raw, state, model_id): the set of its possible results.
\* data.get on a list, a str or a number raises AttributeError.
parse_action(raw, state) ==
    IF ~load_data(raw).ok
    THEN {Returned(a, TRUE) : a \in random_fallback(state)}
    ELSE IF load_data(raw).ty # "dict"
    THEN {Raised("AttributeError")}
    ELSE parse_dict(load_data(raw).val, state)

----------------------------------------------------------------------------
(* bot/agents/random.py *)

\* RandomAgent.choose_action(state)
random_choose_action(state) ==
    IF options(state) = <<>>
    THEN {Returned(MoveAction("struggle", FALSE), TRUE)}
    ELSE {Returned(a, TRUE) : a \in SeqToSet(options(state))}

----------------------------------------------------------------------------
(* bot/agents/mistral.py *)

\* MistralAgent.choose_action(state): the chat call raises or returns the
\* text raw; "except Exception" covers the call and _parse_action alike
mistral_choose_action(backend_raises, raw, state) ==
    IF backend_raises
    THEN {Returned(a, TRUE) : a \in random_fallback(state)}
    ELSE UNION {IF r.raised
                THEN {Returned(a, TRUE) : a \in random_fallback(state)}
                ELSE {r} : r \in parse_action(raw, state)}

----------------------------------------------------------------------------
(* bot/parser.py and bot/player.py *)

\* the fields of poke-env's Battle that extractor and parser read; the two
\* lists hold the ids of available_moves and the species of available_switches
Battle(turn, available_moves, available_switches, can_tera) ==
    [turn |-> turn, available_moves |-> available_moves,
     available_switches |-> available_switches, can_tera |-> can_tera]

NoBattle == Battle(0, <<>>, <<>>, FALSE)

Order(by, target, terastallize) ==
    [by |-> by, target |-> target, terastallize |-> terastallize]

NoOrder == Order("", "", FALSE)

\* next((x for x in xs if x == key), None): the first matching entry, or None
next_match(xs, key) ==
    IF \E i \in 1..Len(xs) : xs[i] = key
    THEN xs[CHOOSE i \in 1..Len(xs) : xs[i] = key /\ \A j \in 1..(i - 1) : xs[j] # key]
    ELSE None

\* player.choose_random_move(battle), poke-env's: an order for one of the
\* available moves or switches, or the default order when there is none
choose_random_move(battle) ==
    IF battle.available_moves = <<>> /\ battle.available_switches = <<>>
    THEN {Order("choose_random_move", "/choose default", FALSE)}
    ELSE {Order("choose_random_move", t, FALSE) :
            t \in SeqToSet(battle.available_moves) \cup SeqToSet(battle.available_switches)}

\* the lookup left out: the named move is taken as available
move_target_unchecked(action, battle) == action.move_id

\* ActionParser._parse_move: the move found in battle.available_moves
move_target(action, battle) == next_match(battle.available_moves, action.move_id)

\* ActionParser._parse_switch: the target found in battle.available_switches
switch_target(action, battle) == next_match(battle.available_switches, action.switch_to)

\* ActionParser.parse(action, battle, player): the orders it may return
parser_parse(action, battle) ==
    IF action.cls = "MoveAction"
    THEN IF move_target(action, battle) = None
         THEN choose_random_move(battle)
         ELSE {Order("create_order", move_target(action, battle), action.tera)}
    ELSE IF action.cls = "SwitchAction"
    THEN IF switch_target(action, battle) = None
         THEN choose_random_move(battle)
         ELSE {Order("create_order", switch_target(action, battle), FALSE)}
    ELSE choose_random_move(battle)

\* StateExtractor.extract(battle), the fields the agents read
extract(battle) ==
    BattleState(battle.turn, battle.available_moves, battle.available_switches,
                battle.can_tera)

----------------------------------------------------------------------------
(* bot/extractor.py: the whole snapshot *)

\* the stats of poke-env's Pokemon.boosts
BoostStats == {"accuracy", "atk", "def", "evasion", "spa", "spd", "spe"}

\* the attributes of poke-env's Pokemon that the extractor reads; hp is
\* current_hp_fraction in percent, active tells the team member on the field
Pokemon(species, hp, fainted, status, boosts, active) ==
    [species |-> species, hp |-> hp, fainted |-> fainted, status |-> status,
     boosts |-> boosts, active |-> active, ability |-> None, item |-> None,
     tera_type |-> None, is_terastallized |-> FALSE, moves |-> <<"tackle">>]

\* Battle.active_pokemon / opponent_active_pokemon: the team member that is
\* active, if there is one
has_active(team) == \E k \in DOMAIN team : team[k].active
active_of(team) == team[CHOOSE k \in DOMAIN team : team[k].active]

\* the attributes of poke-env's Battle that extract reads; single is
\* isinstance(battle, Battle)
BattleView(single, turn, team, opponent_team, weather, fields, side_conditions, opponent_side_conditions, can_tera, available_moves, available_switches) ==
    [single |-> single, turn |-> turn, team |-> team,
     opponent_team |-> opponent_team, weather |-> weather, fields |-> fields,
     side_conditions |-> side_conditions,
     opponent_side_conditions |-> opponent_side_conditions, can_tera |-> can_tera,
     available_moves |-> available_moves, available_switches |-> available_switches]

NoView == BattleView(TRUE, 0, <<>>, <<>>, <<>>, <<>>, <<>>, <<>>, FALSE, <<>>, <<>>)

\* PokemonState
PokemonState(species, hp, fainted, status) ==
    [species |-> species, hp |-> hp, fainted |-> fainted, status |-> status]

\* the default of ActivePokemonState.boosts
DefaultBoosts == [s \in {"atk", "def", "spa", "spd", "spe"} |-> 0]

\* ActivePokemonState
ActivePokemonState(species, hp, fainted, status, boosts, ability, item, tera_type, terastallized, moves) ==
    [species |-> species, hp |-> hp, fainted |-> fainted, status |-> status,
     boosts |-> boosts, ability |-> ability, item |-> item, tera_type |-> tera_type,
     terastallized |-> terastallized, moves |-> moves]

\* x.name.lower() of a Status or PokemonType member
lower_name(name) ==
    CASE name = "BRN" -> "brn"
      [] name = "PAR" -> "par"
      [] name = "FIRE" -> "fire"
      [] OTHER -> name

\* mon.status.name.lower() if mon.status else None
status_of(mon) == IF mon.status = None THEN None ELSE lower_name(mon.status)

\* the active unit read off the team member's attributes, with no test for None
extract_active_unguarded(has_mon, mon) ==
    ActivePokemonState(mon.species, mon.hp, mon.fainted, status_of(mon), mon.boosts,
                       mon.ability, mon.item,
                       IF mon.tera_type = None THEN None ELSE lower_name(mon.tera_type),
                       mon.is_terastallized, mon.moves)

\* the active unit with only the boosts that are not 0
extract_active_set_boosts(has_mon, mon) ==
    IF ~has_mon
    THEN ActivePokemonState("unknown", 0, TRUE, None, <<>>, None, None, None, FALSE, <<>>)
    ELSE ActivePokemonState(mon.species, mon.hp, mon.fainted, status_of(mon),
                            [s \in {t \in DOMAIN mon.boosts : mon.boosts[t] # 0} |->
                                mon.boosts[s]],
                            mon.ability, mon.item, None, mon.is_terastallized, mon.moves)

\* _extract_active(mon); has_mon is "mon is not None"
extract_active(has_mon, mon) ==
    IF ~has_mon
    THEN ActivePokemonState("unknown", 0, TRUE, None, DefaultBoosts, None, None, None,
                            FALSE, <<>>)
    ELSE ActivePokemonState(mon.species, mon.hp, mon.fainted, status_of(mon), mon.boosts,
                            mon.ability, mon.item,
                            IF mon.tera_type = None THEN None ELSE lower_name(mon.tera_type),
                            mon.is_terastallized, mon.moves)

\* _extract_bench(mon)
extract_bench(mon) == PokemonState(mon.species, mon.hp, mon.fainted, status_of(mon))

\* every team member, the active unit too
bench_of_all(team) == [k \in DOMAIN team |-> extract_bench(team[k])]

\* [self._extract_bench(mon) for mon in team.values() if mon.species != (the
\* active unit's species, or "" without an active unit)]
bench_of(team) ==
    LET active_species == IF has_active(team) THEN active_of(team).species ELSE ""
        rest == SelectSeq(team, LAMBDA mon : mon.species # active_species)
    IN  [k \in DOMAIN rest |-> extract_bench(rest[k])]

\* _WEATHER_MAP, _TERRAIN_MAP, _FIELD_NAMES
WEATHER_MAP ==
    ("RAINDANCE" :> "rain") @@ ("SUNNYDAY" :> "sun") @@ ("SANDSTORM" :> "sand")
    @@ ("SNOWSCAPE" :> "snow") @@ ("HAIL" :> "snow")

TERRAIN_MAP ==
    ("ELECTRIC_TERRAIN" :> "electric") @@ ("GRASSY_TERRAIN" :> "grassy")
    @@ ("PSYCHIC_TERRAIN" :> "psychic") @@ ("MISTY_TERRAIN" :> "misty")

FIELD_NAMES == ("TRICK_ROOM" :> "trick_room") @@ ("GRAVITY" :> "gravity")

\* the first entry of xs that is a key of map, mapped; "none" without one
first_mapped(xs, map) ==
    IF \E k \in DOMAIN xs : xs[k] \in DOMAIN map
    THEN map[xs[CHOOSE k \in DOMAIN xs :
                    /\ xs[k] \in DOMAIN map
                    /\ \A j \in 1..(k - 1) : xs[j] \notin DOMAIN map]]
    ELSE "none"

\* _extract_weather / _extract_terrain
extract_weather(battle) == first_mapped(battle.weather, WEATHER_MAP)
extract_terrain(battle) == first_mapped(battle.fields, TERRAIN_MAP)

\* _extract_field
extract_field(battle) ==
    LET named == SelectSeq(battle.fields, LAMBDA f : f \in DOMAIN FIELD_NAMES)
    IN  [k \in DOMAIN named |-> FIELD_NAMES[named[k]]]

\* SideConditions
SideConditions(sr, spikes, toxic_spikes, reflect, light_screen, tailwind) ==
    [sr |-> sr, spikes |-> spikes, toxic_spikes |-> toxic_spikes,
     reflect |-> reflect, light_screen |-> light_screen, tailwind |-> tailwind]

\* _extract_side(conditions): conditions is a dict from condition to count
extract_side(conditions) ==
    SideConditions("STEALTH_ROCK" \in DOMAIN conditions,
                   IF "SPIKES" \in DOMAIN conditions THEN conditions["SPIKES"] ELSE 0,
                   IF "TOXIC_SPIKES" \in DOMAIN conditions
                   THEN conditions["TOXIC_SPIKES"] ELSE 0,
                   "REFLECT" \in DOMAIN conditions,
                   "LIGHT_SCREEN" \in DOMAIN conditions,
                   "TAILWIND" \in DOMAIN conditions)

\* the dataclass BattleState with all its fields
Snapshot(turn, active, opp_active, team, opp_team, weather, terrain, field, my_side, opp_side, can_tera, moves, switches) ==
    [turn |-> turn, active |-> active, opp_active |-> opp_active, team |-> team,
     opp_team |-> opp_team, weather |-> weather, terrain |-> terrain,
     field |-> field, my_side |-> my_side, opp_side |-> opp_side,
     can_tera |-> can_tera, moves |-> moves, switches |-> switches]

\* a team member to stand for "no unit" where a record is needed
NoMon == Pokemon("", 0, FALSE, None, [s \in BoostStats |-> 0], FALSE)

\* the active unit of a team, for _extract_active
active_or_none(team) == IF has_active(team) THEN active_of(team) ELSE NoMon

\* what extract gives: a snapshot or an exception
Extracted(state) == [raised |-> FALSE, exc |-> "", state |-> state]
ExtractRaised(exc) ==
    [raised |-> TRUE, exc |-> exc,
     state |-> Snapshot(0, extract_active(FALSE, NoMon), extract_active(FALSE, NoMon),
                        <<>>, <<>>, "none", "none", <<>>, extract_side(<<>>),
                        extract_side(<<>>), FALSE, <<>>, <<>>)]
NotExtracted == ExtractRaised("")

\* the battle after a call that used up the weather it read
battle_after_consumed(battle) == [battle EXCEPT !.weather = <<>>]

\* the battle after extract(battle): extract and its helpers only read the
\* battle's attributes and assign none; StateExtractor has no attribute
battle_after(battle) == battle

\* StateExtractor.extract(battle), all fields
extractor_extract(battle) ==
    IF ~battle.single
    THEN ExtractRaised("AssertionError")
    ELSE Extracted(Snapshot(
             battle.turn,
             extract_active(has_active(battle.team), active_or_none(battle.team)),
             extract_active(has_active(battle.opponent_team),
                            active_or_none(battle.opponent_team)),
             bench_of(battle.team),
             bench_of(battle.opponent_team),
             extract_weather(battle),
             extract_terrain(battle),
             extract_field(battle),
             extract_side(battle.side_conditions),
             extract_side(battle.opponent_side_conditions),
             battle.can_tera,
             battle.available_moves,
             battle.available_switches))

----------------------------------------------------------------------------
(* bot/agents/_shared.py: LLMBattleAgent *)

\* _build_prompt(state): the text names the turn, the legal moves and
\* switches and the tera option, and never the battle tag
build_prompt(state) ==
    [turn |-> state.turn, moves |-> state.moves, switches |-> state.switches,
     can_tera |-> state.can_tera]

NoPrompt == build_prompt(NoState)

\* _last_exchange: None, or the tuple (prompt, raw)
Exchange(prompt, raw) == [some |-> TRUE, prompt |-> prompt, raw |-> raw]

NoExchange == [some |-> FALSE, prompt |-> NoPrompt, raw |-> EmptyText]

Message(role, prompt, raw) == [role |-> role, prompt |-> prompt, raw |-> raw]

System == Message("system", NoPrompt, EmptyText)

User(prompt) == Message("user", prompt, EmptyText)

Assistant(raw) == Message("assistant", NoPrompt, raw)

\* the previous response without the prompt it answered
build_messages_unpaired(exchange, prompt) ==
    <<System>>
    \o (IF exchange.some THEN <<Assistant(exchange.raw)>> ELSE <<>>)
    \o <<User(prompt)>>

\* LLMBattleAgent._build_messages(prompt)
build_messages(exchange, prompt) ==
    <<System>>
    \o (IF exchange.some
        THEN <<User(exchange.prompt), Assistant(exchange.raw)>>
        ELSE <<>>)
    \o <<User(prompt)>>

\* str(id(self)) and self._name of the one agent instance
SelfId == "id(self)"
SelfName == "model-1a2b3c"

\* tag = state.battle_tag or str(id(self))
tag_of(state) == IF state.battle_tag = "" THEN SelfId ELSE state.battle_tag

\* the memory kept whatever the tag
exchange_kept(tag, cur_tag, exchange) == exchange

\* lines 286-288: _last_exchange after the tag check
exchange_for_tag(tag, cur_tag, exchange) ==
    IF tag # cur_tag THEN NoExchange ELSE exchange

\* an agent that forgets its exchange when the backend call raises
exchange_after_cleared(raised, exch, prompt, raw) ==
    IF raised THEN NoExchange ELSE Exchange(prompt, raw)

\* line 306, inside the try block after _call_api and _parse_action:
\* "self._last_exchange = (prompt, raw)" is not reached when one of them raises
exchange_after(raised, exch, prompt, raw) ==
    IF raised THEN exch ELSE Exchange(prompt, raw)

\* lines 295-298: the least time.sleep() takes, 0 when it is not called
throttle_wait(throttle, clock, call_end) ==
    IF throttle > 0 /\ throttle - (clock - call_end) > 0
    THEN throttle - (clock - call_end)
    ELSE 0

\* the mark set after a call that returned only
call_end_mark_on_success(raised, t_end, call_end) ==
    IF raised THEN call_end ELSE t_end

\* lines 308-309: "finally: self._last_call_end = time.perf_counter()"
call_end_mark(raised, t_end, call_end) == t_end

\* a telemetry row as choose_action builds it (lines 318-331)
TurnStat(tag, turn, agent, ms, used_fallback, history_msgs, action_type, move_id) ==
    [battle_tag |-> tag, turn |-> turn, agent |-> agent, decision_ms |-> ms,
     used_fallback |-> used_fallback, history_msgs |-> history_msgs,
     action_type |-> action_type, move_id |-> move_id]

\* type(action).__name__.replace("Action", "").lower()
action_type_of(action) ==
    CASE action.cls = "MoveAction" -> "move"
      [] action.cls = "SwitchAction" -> "switch"
      [] OTHER -> "nonetype"

\* lines 300-307: what the try block may end with, the backend raising or
\* returning raw
try_block(backend_raises, raw, state) ==
    IF backend_raises
    THEN {Raised("backend error")}
    ELSE parse_action(raw, state)

\* the row of a call that returned (used_fallback is set to False at line 306)
row_of(state, action, messages, dur) ==
    TurnStat(tag_of(state), state.turn, SelfName, dur, FALSE, Len(messages) - 2,
             action_type_of(action),
             IF action.cls = "MoveAction" THEN action.move_id ELSE "")

----------------------------------------------------------------------------
(* benchmark: result containers and the state of one BattleRunner.run *)

\* BattleResult; game_id (a fresh uuid) and timestamp are left out, p1_agent and
\* p2_agent are those of the report
BattleResult(winner, n_turns) == [winner |-> winner, n_turns |-> n_turns]

BenchmarkReport(p1_agent, p2_agent, n_games, p1_wins, p2_wins, draws, results, stats) ==
    [p1_agent |-> p1_agent, p2_agent |-> p2_agent, n_games |-> n_games,
     p1_wins |-> p1_wins, p2_wins |-> p2_wins, draws |-> draws,
     results |-> results, turn_stats |-> stats]

NoReport == BenchmarkReport("", "", 0, 0, 0, 0, <<>>, <<>>)

\* a Python float that is the quotient of two ints, kept exact: the fraction in
\* lowest terms with a positive denominator
Float(num, den) == [num |-> num, den |-> den]

\* 0.0
Zero == Float(0, 1)

abs(x) == IF x < 0 THEN -x ELSE x

RECURSIVE gcd(_, _)
gcd(a, b) == IF b = 0 THEN a ELSE gcd(b, a % b)

\* a / b, b # 0
true_div(a, b) ==
    LET g == gcd(abs(a), abs(b))
        s == IF b < 0 THEN -1 ELSE 1
    IN  Float((s * a) \div g, (s * b) \div g)

\* float | None
NoneFloat == [none |-> TRUE, num |-> 0, den |-> 1]
SomeFloat(x) == [none |-> FALSE, num |-> x.num, den |-> x.den]

\* sum(...) over a list of ints
RECURSIVE sum(_)
sum(xs) == IF xs = <<>> THEN 0 ELSE Head(xs) + sum(Tail(xs))

\* player 1's wins over the matches that had a winner
p1_win_rate_of_decided(report) ==
    IF report.p1_wins + report.p2_wins = 0 THEN Zero
    ELSE true_div(report.p1_wins, report.p1_wins + report.p2_wins)

\* BenchmarkReport.p1_win_rate
p1_win_rate(report) ==
    IF report.n_games = 0 THEN Zero ELSE true_div(report.p1_wins, report.n_games)

\* BenchmarkReport.avg_game_length
avg_game_length(report) ==
    IF report.results = <<>> THEN Zero
    ELSE true_div(sum([k \in DOMAIN report.results |-> report.results[k].n_turns]),
                  Len(report.results))

\* every row, whatever its agent
rows_unfiltered(stats, agent) == stats

\* [t for t in self.turn_stats if t.agent == agent]
rows_of_agent(stats, agent) == SelectSeq(stats, LAMBDA t : t.agent = agent)

\* p1_avg_decision_ms / p2_avg_decision_ms, for the side's agent name
avg_decision_ms(report, agent) ==
    LET rows == rows_of_agent(report.turn_stats, agent)
    IN  IF rows = <<>> THEN NoneFloat
        ELSE SomeFloat(true_div(sum([k \in DOMAIN rows |-> rows[k].decision_ms]),
                                Len(rows)))

\* p1_fallback_rate / p2_fallback_rate, for the side's agent name
fallback_rate(report, agent) ==
    LET rows == rows_of_agent(report.turn_stats, agent)
    IN  IF rows = <<>> THEN NoneFloat
        ELSE SomeFloat(true_div(
                 sum([k \in DOMAIN rows |-> IF rows[k].used_fallback THEN 1 ELSE 0]),
                 Len(rows)))

\* the "summary" object of write_report (total_duration_s left out)
Summary(report) ==
    [p1_agent |-> report.p1_agent, p2_agent |-> report.p2_agent,
     n_games |-> report.n_games, p1_wins |-> report.p1_wins,
     p2_wins |-> report.p2_wins, draws |-> report.draws,
     p1_win_rate |-> p1_win_rate(report),
     avg_game_length |-> avg_game_length(report),
     p1_avg_decision_ms |-> avg_decision_ms(report, report.p1_agent),
     p2_avg_decision_ms |-> avg_decision_ms(report, report.p2_agent),
     p1_fallback_rate |-> fallback_rate(report, report.p1_agent),
     p2_fallback_rate |-> fallback_rate(report, report.p2_agent)]

NoSummary == Summary(NoReport)

\* a finished match as player 1 holds it: the server's outcome for player 1
\* ("win", "loss" or "tie") and the last turn number
FinishedBattle(tag, outcome, turn) == [tag |-> tag, outcome |-> outcome, turn |-> turn]

\* Battle.won is True on a win, False on a loss, None on a tie;
\* Battle.lost is its negation, None on a tie
won(battle) == battle.outcome = "win"
lost(battle) == battle.outcome = "loss"

\* the same match as player 2 holds it
mirrored(battle) ==
    [battle EXCEPT !.outcome = CASE battle.outcome = "win" -> "loss"
                                 [] battle.outcome = "loss" -> "win"
                                 [] OTHER -> "tie"]

\* Player.n_won_battles
n_won_battles(battles) == Cardinality({k \in DOMAIN battles : won(battles[k])})

\* an agent handed to run(): the LLM agent of this module or a RandomAgent
Agent(kind, name) == [kind |-> kind, name |-> name]
NoAgent == Agent("", "")

\* the room id the server gives the k-th match
BattleTag(k) == "battle-" \o ToString(k)

\* before the first run() call
NoRun ==
    [pc |-> "idle", agent1 |-> NoAgent, agent2 |-> NoAgent, n_battles |-> 0,
     i |-> 0, p1_battles |-> <<>>, turn |-> 0, side |-> 1, matches |-> 0,
     runs |-> 0, rows_before |-> 0, report |-> NoReport,
     in_flight |-> 0, sleeps |-> 0]

----------------------------------------------------------------------------
(* main: the agent registry *)

\* an agent identifier of the command line, the text head \o rest: head is the
\* part build_agent tests ("random", "mistral:", "hf:", or nothing it knows)
Identifier(head, rest) == [head |-> head, rest |-> rest]
NoIdentifier == Identifier("", "")

\* an agent instance: its class and the value of its name property
Instance(cls, name) == [cls |-> cls, name |-> name]
NoInstance == Instance("", "")

\* LLMBattleAgent.__init__: f"{model_id}-{uuid.uuid4().hex[:6]}"
llm_name(model_id, hex6) == model_id \o "-" \o hex6

\* MistralAgent.name: the model id
mistral_name(model_id, hex6) == model_id

\* RandomAgent.__init__: f"random-{uuid.uuid4().hex[:6]}"
random_name(hex6) == "random-" \o hex6

\* what build_agent gives: an instance or an exception
BuiltAgent(agent) == [raised |-> FALSE, exc |-> "", agent |-> agent]
BuildRaised(exc) == [raised |-> TRUE, exc |-> exc, agent |-> NoInstance]

\* a registry that gives a RandomAgent for an identifier it does not know
build_agent_lenient(id, hex6) ==
    IF id.head = "mistral:"
    THEN BuiltAgent(Instance("MistralAgent", mistral_name(id.rest, hex6)))
    ELSE IF id.head = "hf:"
    THEN BuiltAgent(Instance("HFAgent", llm_name(id.rest, hex6)))
    ELSE BuiltAgent(Instance("RandomAgent", random_name(hex6)))

\* build_agent(name); hex6 is what uuid4().hex[:6] gives the new instance
build_agent(id, hex6) ==
    IF id.head = "random" /\ id.rest = ""
    THEN BuiltAgent(Instance("RandomAgent", random_name(hex6)))
    ELSE IF id.head = "mistral:"
    THEN BuiltAgent(Instance("MistralAgent", mistral_name(id.rest, hex6)))
    ELSE IF id.head = "hf:"
    THEN BuiltAgent(Instance("HFAgent", llm_name(id.rest, hex6)))
    ELSE BuildRaised("ValueError")

\* agent1 and agent2 of main
Built(raised, agent1, agent2) == [raised |-> raised, agent1 |-> agent1, agent2 |-> agent2]
NoBuilt == Built(FALSE, NoInstance, NoInstance)

----------------------------------------------------------------------------
(* Inputs *)

MoveIds == {"tackle", "surf", "struggle"}

MoveLists == {<<>>, <<"tackle">>, <<"tackle", "surf">>, <<"struggle">>}
SwitchLists == {<<>>, <<"pikachu">>}

\* snapshots handed to the stateless operations
ParseStates ==
    {BattleState(1, m, s, c) : m \in MoveLists, s \in SwitchLists, c \in BOOLEAN}

\* JSON objects a model may answer with
MoveObjects ==
    {JsonObject("move", m, Absent, t) :
        m \in {Absent, "tackle", " tackle ", "surf", "zap"},
        t \in {Absent, "true", "false", "\"no\""}}

SwitchObjects ==
    {JsonObject("switch", Absent, sp, Absent) : sp \in {Absent, "pikachu", "mew"}}

OtherObjects ==
    {JsonObject(a, "tackle", Absent, Absent) : a \in {Absent, "attack"}}

Objects == MoveObjects \cup SwitchObjects \cup OtherObjects

\* response texts: "", prose, a JSON array or scalar, an object, each of
\* them bare or inside prose
Raws ==
    {Raw(l, "obj", o) : l \in BOOLEAN, o \in Objects}
    \cup {Raw(l, "arrobj", o) : l \in BOOLEAN, o \in {JsonObject("move", "tackle", Absent, Absent)}}
    \cup {Raw(l, k, EmptyObject) : l \in BOOLEAN, k \in {"none", "arr", "scalar", "badobj"}}

\* actions handed to ActionParser.parse: every action of an agent, and an
\* object that is neither a MoveAction nor a SwitchAction
ParserActions ==
    {MoveAction(m, t) : m \in MoveIds, t \in BOOLEAN}
    \cup {SwitchAction(sp) : sp \in {"pikachu", "mew"}}
    \cup {NoAction}

Battles ==
    {Battle(1, m, s, c) : m \in MoveLists, s \in SwitchLists, c \in BOOLEAN}

----------------------------------------------------------------------------
(* finetune/scraper.py: the PokeAPI caches and their per-key locks *)

\* str.lower() on the characters the model uses
to_lower(c) == CASE c = "A" -> "a" [] c = "B" -> "b" [] OTHER -> c

\* name.lower().replace(" ", "-").replace("'", "").replace(".", "").replace(":", "")
normalize_name(name) ==
    LET dashed == [k \in DOMAIN name |->
                     IF to_lower(name[k]) = " " THEN "-" ELSE to_lower(name[k])]
    IN  SelectSeq(dashed, LAMBDA c : c \notin {"'", ".", ":"})

\* the names the threads ask for
ScrapeNames == {<<"A">>, <<"a", ".">>, <<"a", " ", "b">>}

ScrapeKeys == {normalize_name(n) : n \in ScrapeNames}

\* pokemon_cache / _pokemon_locks and move_cache / _move_locks
Tables == {"pokemon", "move"}

\* what a GET gives: a status with the decoded body, or an exception
Response(status, data) == [status |-> status, data |-> data]

\* the values fetch_pokemon_data builds from a body (types and hp stand for
\* the seven entries)
PokemonResult(types, hp) == [types |-> types, hp |-> hp]

\* the values fetch_move_data builds from a body
MoveResult(type, power, accuracy, category) ==
    [type |-> type, power |-> power, accuracy |-> accuracy, category |-> category]

\* the "except Exception" results
PokemonPlaceholder == PokemonResult(<<>>, "?")
MovePlaceholder == MoveResult("?", "?", "?", "?")

placeholder(table) == IF table = "pokemon" THEN PokemonPlaceholder ELSE MovePlaceholder

\* the bodies PokeAPI answers with; power and accuracy may be null
\* (numbers are written as texts, null as "null")
PokemonBodies ==
    {PokemonResult(<<"electric">>, "35"), PokemonResult(<<"fire", "flying">>, "78")}

MoveBodies == {MoveResult("normal", "null", "100", "status")}

NoBody == PokemonPlaceholder

Responses(table) ==
    {Response("404", NoBody), Response("exception", NoBody)}
    \cup {Response("200", b) : b \in IF table = "pokemon" THEN PokemonBodies ELSE MoveBodies}

\* data["power"] or 0, data["accuracy"] or 100
move_result(data) ==
    MoveResult(data.type,
               IF data.power \in {"null", "0"} THEN "0" ELSE data.power,
               IF data.accuracy \in {"null", "0"} THEN "100" ELSE data.accuracy,
               data.category)

\* the try block of fetch_pokemon_data: r1 answers the key, r2 the base name
\* asked for after a 404; raise_for_status raises on every status but 200
pokemon_lookup(r1, r2) ==
    LET r == IF r1.status = "404" THEN r2 ELSE r1
    IN  IF r.status = "200" THEN r.data ELSE PokemonPlaceholder

\* the try block of fetch_move_data
move_lookup(r1) == IF r1.status = "200" THEN move_result(r1.data) ELSE MovePlaceholder

\* a thread of the replay workers: where it is in fetch_*_data and its locals
Thread(pc, table, key, result, value) ==
    [pc |-> pc, table |-> table, key |-> key, result |-> result, value |-> value]

NoValue == [none |-> TRUE]

IdleThread == Thread("idle", "", <<>>, NoValue, NoValue)

Threads == 1..MaxThreads

\* the module after import: empty caches, no lock object, no thread inside;
\* lookups, writes, returned and failed record what has happened per key
NoScraper ==
    [cache |-> [tb \in Tables |-> <<>>],
     locks |-> [tb \in Tables |-> {}],
     held |-> [tb \in Tables |-> {}],
     threads |-> [t \in Threads |-> IdleThread],
     fetches |-> 0,
     lookups |-> [tb \in Tables |-> [k \in ScrapeKeys |-> 0]],
     writes |-> [tb \in Tables |-> [k \in ScrapeKeys |-> 0]],
     returned |-> [tb \in Tables |-> [k \in ScrapeKeys |-> {}]],
     failed |-> [tb \in Tables |-> {}]]

----------------------------------------------------------------------------
(* Observations *)

NoResult == [raised |-> FALSE, exc |-> "", action |-> NoAction, fb |-> FALSE]

NoObs ==
    [op |-> "init", state |-> NoState, raw |-> EmptyText, backend_raised |-> FALSE,
     res |-> NoResult, messages |-> <<>>, prev_tag |-> None, tag |-> None,
     sent_tag |-> None, prev_end |-> 0, t_start |-> 0, t_end |-> 0, first |-> FALSE,
     battle |-> NoBattle, order |-> NoOrder,
     report |-> NoReport, summary |-> NoSummary,
     name |-> <<>>, username |-> <<>>, name2 |-> <<>>, username2 |-> <<>>,
     p1 |-> NoIdentifier, p2 |-> NoIdentifier, built |-> NoBuilt,
     view |-> NoView, extracted |-> NotExtracted,
     view_after |-> NoView, extracted_again |-> NotExtracted,
     started |-> FALSE, written |-> FALSE]

----------------------------------------------------------------------------
(* The stateless operations: a behaviour applies one of them to one input *)

\* the fields LLMBattleAgent.__init__ gives an instance; id tells the two
\* instances of a match apart
LLMFields(id, throttle, call_end, tag, exchange, stats, etag) ==
    [id |-> id, throttle_s |-> throttle, last_call_end |-> call_end,
     current_tag |-> tag, last_exchange |-> exchange, turn_stats |-> stats,
     exch_tag |-> etag]

\* LLMBattleAgent.__init__(model_id, throttle_s)
new_agent(id, throttle) == LLMFields(id, throttle, 0, None, NoExchange, <<>>, None)

InitAgent ==
    /\ now \in 0..1
    /\ throttle_s \in {0, DefaultThrottle}
    /\ last_call_end = 0
    /\ current_tag = None
    /\ last_exchange = NoExchange
    /\ turn_stats = <<>>
    /\ calls = 0
    /\ exch_tag = None

Init ==
    /\ InitAgent
    /\ other = new_agent(2, DefaultThrottle)
    /\ scraper = NoScraper
    /\ run = NoRun
    /\ last = NoObs

InitParse ==
    /\ Init
    /\ now = 0
    /\ throttle_s = DefaultThrottle

\* _parse_action(raw, state, model_id)
ParseActionCall ==
    /\ last.op = "init"
    /\ \E raw \in Raws, state \in ParseStates :
        \E r \in parse_action(raw, state) :
            /\ last' = [NoObs EXCEPT !.op = "_parse_action", !.raw = raw,
                                     !.state = state, !.res = r]
            /\ UNCHANGED <<agent_vars, run>>

\* _random_fallback(state)
RandomFallbackCall ==
    /\ last.op = "init"
    /\ \E state \in ParseStates :
        \E a \in random_fallback(state) :
            /\ last' = [NoObs EXCEPT !.op = "_random_fallback", !.state = state,
                                     !.res = Returned(a, TRUE)]
            /\ UNCHANGED <<agent_vars, run>>

\* RandomAgent.choose_action(state)
RandomAgentCall ==
    /\ last.op = "init"
    /\ \E state \in ParseStates :
        \E r \in random_choose_action(state) :
            /\ last' = [NoObs EXCEPT !.op = "RandomAgent.choose_action",
                                     !.state = state, !.res = r]
            /\ UNCHANGED <<agent_vars, run>>

\* MistralAgent.choose_action(state)
MistralAgentCall ==
    /\ last.op = "init"
    /\ \E raises \in BOOLEAN, raw \in Raws, state \in ParseStates :
        \E r \in mistral_choose_action(raises, raw, state) :
            /\ last' = [NoObs EXCEPT !.op = "MistralAgent.choose_action",
                                     !.raw = IF raises THEN EmptyText ELSE raw,
                                     !.backend_raised = raises,
                                     !.state = state, !.res = r]
            /\ UNCHANGED <<agent_vars, run>>

\* ActionParser.parse(action, battle, player)
ParserParseCall ==
    /\ last.op = "init"
    /\ \E action \in ParserActions, battle \in Battles :
        \E o \in parser_parse(action, battle) :
            /\ last' = [NoObs EXCEPT !.op = "ActionParser.parse", !.battle = battle,
                                     !.res = Returned(action, FALSE), !.order = o]
            /\ UNCHANGED <<agent_vars, run>>

\* AgentPlayer.choose_move(battle) with a RandomAgent
ChooseMoveRandom ==
    /\ last.op = "init"
    /\ \E battle \in Battles :
        \E r \in random_choose_action(extract(battle)) :
            \E o \in parser_parse(r.action, battle) :
                /\ last' = [NoObs EXCEPT !.op = "AgentPlayer.choose_move",
                                         !.battle = battle, !.state = extract(battle),
                                         !.res = r, !.order = o]
                /\ UNCHANGED <<agent_vars, run>>

NextParse ==
    \/ ParseActionCall
    \/ RandomFallbackCall
    \/ RandomAgentCall
    \/ MistralAgentCall
    \/ ParserParseCall
    \/ ChooseMoveRandom

SpecParse == InitParse /\ [][NextParse]_vars

----------------------------------------------------------------------------
(* LLMBattleAgent.choose_action *)

LLM == "LLMBattleAgent.choose_action"

\* LLMBattleAgent.choose_action(state), start to end.  The sleep lasts wait
\* plus jitter, the backend call dur; parsing and bookkeeping take no time, so
\* that _last_call_end is the time the backend call ended.
LLMChooseAction(states, raws, durs, jitters) ==
    /\ calls < MaxCalls
    /\ \E state \in states, backend_raises \in BOOLEAN, raw \in raws,
          dur \in durs, jitter \in jitters :
        LET tag == tag_of(state)
            exch == exchange_for_tag(tag, current_tag, last_exchange)
            prompt == build_prompt(state)
            messages == build_messages(exch, prompt)
            wait == throttle_wait(throttle_s, now, last_call_end)
            t0 == now + wait + (IF wait > 0 THEN jitter ELSE 0)
            t1 == t0 + dur
        IN  /\ t1 <= MaxTime
            /\ backend_raises => raw = EmptyText
            /\ \E r \in try_block(backend_raises, raw, state) :
                /\ now' = t1
                /\ current_tag' = tag
                /\ last_call_end' = call_end_mark(r.raised, t1, last_call_end)
                /\ calls' = calls + 1
                /\ last_exchange' = exchange_after(r.raised, exch, prompt, raw)
                /\ IF r.raised
                   THEN /\ exch_tag' = IF exch.some THEN exch_tag ELSE None
                        /\ turn_stats' = turn_stats
                   ELSE /\ exch_tag' = tag
                        /\ turn_stats' =
                             Append(turn_stats, row_of(state, r.action, messages, dur))
                /\ last' = [NoObs EXCEPT
                              !.op = LLM, !.state = state, !.raw = raw,
                              !.backend_raised = backend_raises, !.res = r,
                              !.messages = messages,
                              !.prev_tag = last.tag, !.tag = tag,
                              !.sent_tag = IF exch.some THEN exch_tag ELSE None,
                              !.prev_end = last.t_end, !.t_start = t0, !.t_end = t1,
                              !.first = (calls = 0)]
            /\ UNCHANGED <<throttle_s, other, scraper>>

\* time passes between two calls
Tick ==
    /\ now < MaxTime
    /\ now' = now + 1
    /\ UNCHANGED <<throttle_s, last_call_end, current_tag, last_exchange,
                   turn_stats, calls, exch_tag, other, scraper, run, last>>

\* snapshots and response texts of the memory and telemetry runs
AgentStates ==
    {TaggedState(t, n, m, <<"pikachu">>, n = 1) :
        t \in {"", "battle-1", "battle-2"}, n \in {1, 2}, m \in {<<>>, <<"tackle">>}}

AgentRaws ==
    {EmptyText,
     Raw(FALSE, "arr", EmptyObject),
     Raw(FALSE, "obj", JsonObject("move", "tackle", Absent, "false")),
     Raw(FALSE, "obj", JsonObject("move", "zap", Absent, Absent)),
     Raw(TRUE, "obj", JsonObject("switch", Absent, "pikachu", Absent))}

\* the throttle switched off (main.py, --move-delay 0): the clock stands still
InitMemory ==
    /\ Init
    /\ now = 0
    /\ throttle_s = 0

ChooseAction ==
    /\ LLMChooseAction(AgentStates, AgentRaws, {0}, {0})
    /\ UNCHANGED run

Next == ChooseAction

Spec == InitMemory /\ [][Next]_vars

\* snapshots and response texts of the timed runs
ThrottleStates == {TaggedState("battle-1", 1, <<"tackle">>, <<>>, FALSE)}

ThrottleRaws ==
    {EmptyText, Raw(FALSE, "obj", JsonObject("move", "tackle", Absent, "false"))}

ChooseActionTimed ==
    /\ LLMChooseAction(ThrottleStates, ThrottleRaws, 0..MaxDur, 0..MaxJitter)
    /\ UNCHANGED run

NextThrottle ==
    \/ ChooseActionTimed
    \/ Tick

SpecThrottle == Init /\ [][NextThrottle]_vars

\* the fields of the instance self names
self_fields ==
    LLMFields(3 - other.id, throttle_s, last_call_end, current_tag, last_exchange,
              turn_stats, exch_tag)

\* the fields of instance k
fields_of(k) == IF k = other.id THEN other ELSE self_fields

\* _last_call_end an attribute of the class: the instance self names next
\* finds the mark the other instance has set
rebound_shared_mark(mine, peer) ==
    [self |-> [peer EXCEPT !.last_call_end = mine.last_call_end], other |-> mine]

\* self._agent.choose_action(state) of the other player: self names the other
\* instance, and every field is an attribute of the instance (__init__)
rebound(mine, peer) == [self |-> peer, other |-> mine]

\* the server asks the other side of the match: the next choose_action call is
\* made on the agent of the other AgentPlayer
ChooseMoveOfOtherSide ==
    LET b == rebound(self_fields, other)
    IN  /\ throttle_s' = b.self.throttle_s
        /\ last_call_end' = b.self.last_call_end
        /\ current_tag' = b.self.current_tag
        /\ last_exchange' = b.self.last_exchange
        /\ turn_stats' = b.self.turn_stats
        /\ exch_tag' = b.self.exch_tag
        /\ other' = b.other
        /\ UNCHANGED <<now, calls, scraper, run, last>>

\* a call on the instance self names; the backend answers at once
ChooseActionOfSide ==
    /\ LLMChooseAction(ThrottleStates, ThrottleRaws, {0}, {0})
    /\ UNCHANGED run

NextPair ==
    \/ ChooseActionOfSide
    \/ ChooseMoveOfOtherSide
    \/ Tick

SpecPair == Init /\ [][NextPair]_vars

----------------------------------------------------------------------------
(* BattleRunner.run: n matches between two AgentPlayers, then the report *)

\* the agents handed to run(): the LLM agent of this module and a RandomAgent
LLMAgent == Agent("llm", SelfName)

Agents == {LLMAgent, Agent("random", "random-3f9a1c")}

\* getattr(agent, "turn_stats", []): a RandomAgent has no such attribute
stats_of(agent, stats) == IF agent.kind = "llm" THEN stats ELSE <<>>

\* "p1" if battle.won else "p2" if battle.lost else "draw"
winner_of(battle) ==
    IF won(battle) THEN "p1" ELSE IF lost(battle) THEN "p2" ELSE "draw"

\* _collect_results: one row per entry of p1.battles
collect_results(battles) ==
    [k \in DOMAIN battles |-> BattleResult(winner_of(battles[k]), battles[k].turn)]

\* draws = n_battles - p1.n_won_battles - p2.n_won_battles
draws_of(n_battles, p1_won, p2_won) == n_battles - p1_won - p2_won

\* _run_async after the loop: the report from the two players and the agents
build_report(r, stats) ==
    LET p1_won == n_won_battles(r.p1_battles)
        p2_won == n_won_battles([k \in DOMAIN r.p1_battles |-> mirrored(r.p1_battles[k])])
    IN  BenchmarkReport(r.agent1.name, r.agent2.name, r.n_battles, p1_won, p2_won,
                        draws_of(r.n_battles, p1_won, p2_won),
                        collect_results(r.p1_battles),
                        stats_of(r.agent1, stats) \o stats_of(r.agent2, stats))

\* p1.battle_against(p2, n_battles=n_battles): every match of the run requested
\* by one call
start_match_all(r) ==
    [r EXCEPT !.pc = "battle", !.matches = @ + 1, !.turn = 1, !.side = 1,
              !.in_flight = @ + r.n_battles]

\* p1.battle_against(p2, n_battles=1) is awaited: a new match is in flight
start_match(r) ==
    [r EXCEPT !.pc = "battle", !.matches = @ + 1, !.turn = 1, !.side = 1,
              !.in_flight = @ + 1]

\* the loop is over: run() returns the report
finish(r, stats) == [r EXCEPT !.pc = "done", !.report = build_report(r, stats)]

\* the agent of the side that decides next
side_agent(r) == IF r.side = 1 THEN r.agent1 ELSE r.agent2

\* the side has sent its order; after side 2 the server resolves the turn
after_decision(r) == [r EXCEPT !.side = IF r.side = 1 THEN 2 ELSE 0]

\* the snapshot the extractor hands to the deciding agent
RunState(r) == TaggedState(BattleTag(r.matches), r.turn, <<"tackle">>, <<>>, r.turn = 1)

RunRaws ==
    {EmptyText, Raw(FALSE, "obj", JsonObject("move", "tackle", Absent, "false"))}

RUN == "BattleRunner.run"

\* run(agent1, agent2, n_battles) up to its first await: two fresh players,
\* then the first match, or the report at once when the loop has no iteration
Run ==
    /\ run.pc \in {"idle", "done"}
    /\ run.runs < MaxRuns
    /\ \E agent1 \in Agents, agent2 \in Agents, n_battles \in (-MaxNegative)..MaxGames :
        LET r == [run EXCEPT !.agent1 = agent1, !.agent2 = agent2,
                             !.n_battles = n_battles, !.i = 0, !.p1_battles = <<>>,
                             !.turn = 0, !.side = 1, !.runs = @ + 1,
                             !.rows_before = Len(turn_stats), !.report = NoReport,
                             !.sleeps = 0]
        IN  run' = IF n_battles > 0 THEN start_match(r) ELSE finish(r, turn_stats)
    /\ last' = [NoObs EXCEPT !.op = RUN]
    /\ UNCHANGED agent_vars

\* AgentPlayer.choose_move of a side whose agent is a RandomAgent
ChooseMoveOfRandom ==
    /\ run.pc = "battle"
    /\ run.side \in {1, 2}
    /\ side_agent(run).kind = "random"
    /\ run' = after_decision(run)
    /\ last' = [NoObs EXCEPT !.op = "RandomAgent.choose_action", !.state = RunState(run)]
    /\ UNCHANGED agent_vars

\* AgentPlayer.choose_move of a side whose agent is the LLM agent: an exception
\* of choose_action leaves choose_move, no order is sent and the match stalls
ChooseMoveOfLLM ==
    /\ run.pc = "battle"
    /\ run.side \in {1, 2}
    /\ side_agent(run).kind = "llm"
    /\ LLMChooseAction({RunState(run)}, RunRaws, {0}, {0})
    /\ run' = IF last'.res.raised THEN [run EXCEPT !.pc = "stalled"]
                                  ELSE after_decision(run)

\* the server resolves the turn and asks both sides again
TurnResolved ==
    /\ run.pc = "battle"
    /\ run.side = 0
    /\ run.turn < MaxTurns
    /\ run' = [run EXCEPT !.turn = @ + 1, !.side = 1]
    /\ last' = [NoObs EXCEPT !.op = "turn"]
    /\ UNCHANGED agent_vars

\* the server ends the match: battle_against returns, and the loop either
\* sleeps before the next match or is over
MatchEnds ==
    /\ run.pc = "battle"
    /\ run.side = 0
    /\ \E outcome \in {"win", "loss", "tie"} :
        LET r == [run EXCEPT !.i = @ + 1, !.in_flight = @ - 1,
                             !.p1_battles = Append(@, FinishedBattle(
                                 BattleTag(run.matches), outcome, run.turn))]
        IN  run' = IF r.i < r.n_battles THEN [r EXCEPT !.pc = "sleep"]
                                        ELSE finish(r, turn_stats)
    /\ last' = [NoObs EXCEPT !.op = "end"]
    /\ UNCHANGED agent_vars

\* asyncio.sleep(1.0) is over: the next match starts
PacingDone ==
    /\ run.pc = "sleep"
    /\ run' = start_match([run EXCEPT !.sleeps = @ + 1])
    /\ last' = [NoObs EXCEPT !.op = "sleep"]
    /\ UNCHANGED agent_vars

NextRun ==
    \/ Run
    \/ ChooseMoveOfRandom
    \/ ChooseMoveOfLLM
    \/ TurnResolved
    \/ MatchEnds
    \/ PacingDone

SpecRun == InitMemory /\ [][NextRun]_vars

----------------------------------------------------------------------------
(* write_report: the derived figures of a report *)

\* the sequences over S of length at most n
SeqsUpTo(S, n) == UNION {[1..k -> S] : k \in 0..n}

\* decision_ms values of the rows
DecisionMs == {1, 4}

ReportNames == {SelfName, "random-3f9a1c"}

\* rows with the fields TurnStat declares
ReportRows ==
    {[battle_tag |-> "battle-1", turn |-> 1, agent |-> agent, decision_ms |-> ms,
      used_fallback |-> fb, history_msgs |-> 0, action_type |-> "move"] :
        agent \in ReportNames, ms \in DecisionMs, fb \in BOOLEAN}

ReportResults == {BattleResult("draw", n_turns) : n_turns \in 1..MaxTurns}

\* BenchmarkReport is a plain dataclass: its counts are whatever it was built with
Reports ==
    {BenchmarkReport(SelfName, p2_agent, n_games, p1_wins, 0, n_games - p1_wins, rs, stats) :
        p2_agent \in ReportNames, n_games \in 0..MaxGames, p1_wins \in 0..MaxGames,
        rs \in SeqsUpTo(ReportResults, MaxGames), stats \in SeqsUpTo(ReportRows, MaxRows)}

WRITE == "write_report"

\* write_report(report, path): the summary object that is dumped
WriteReport ==
    /\ last.op = "init"
    /\ \E report \in Reports :
        last' = [NoObs EXCEPT !.op = WRITE, !.report = report,
                              !.summary = Summary(report)]
    /\ UNCHANGED <<agent_vars, run>>

NextReport == WriteReport

SpecReport == InitParse /\ [][NextReport]_vars

----------------------------------------------------------------------------
(* _showdown_username: names are sequences of characters *)

Digits == {"0", "1", "2", "3", "4", "5", "6", "7", "8", "9"}

Lower ==
    {"a", "b", "c", "d", "e", "f", "g", "h", "i", "j", "k", "l", "m",
     "n", "o", "p", "q", "r", "s", "t", "u", "v", "w", "x", "y", "z"}

Upper ==
    {"A", "B", "C", "D", "E", "F", "G", "H", "I", "J", "K", "L", "M",
     "N", "O", "P", "Q", "R", "S", "T", "U", "V", "W", "X", "Y", "Z"}

\* [a-zA-Z0-9-]
SafeChars == Lower \cup Upper \cup Digits \cup {"-"}

\* [0-9a-f]
HexChars == Digits \cup {"a", "b", "c", "d", "e", "f"}

\* re.sub(r"[^a-zA-Z0-9-]", "-", agent_name)
sanitize(s) == [k \in DOMAIN s |-> IF s[k] \in SafeChars THEN s[k] ELSE "-"]

\* s[:n]
take(s, n) == SubSeq(s, 1, IF n < Len(s) THEN n ELSE Len(s))

RECURSIVE lstrip(_)
lstrip(s) == IF s # <<>> /\ Head(s) = "-" THEN lstrip(Tail(s)) ELSE s

\* s.rstrip("-")
RECURSIVE rstrip(_)
rstrip(s) ==
    IF s # <<>> /\ s[Len(s)] = "-" THEN rstrip(SubSeq(s, 1, Len(s) - 1)) ELSE s

\* s.strip("-")
strip_hyphens(s) == lstrip(rstrip(s))

\* re.match(r"^(.*)-([0-9a-f]{6})$", safe) succeeds
tag_match(safe) ==
    /\ Len(safe) >= TagLen + 1
    /\ safe[Len(safe) - TagLen] = "-"
    /\ \A k \in (Len(safe) - TagLen + 1)..Len(safe) : safe[k] \in HexChars

\* m.group(1), m.group(2)
group1(safe) == SubSeq(safe, 1, Len(safe) - TagLen - 1)
group2(safe) == SubSeq(safe, Len(safe) - TagLen + 1, Len(safe))

\* [p for p in prefix.split("-") if p]: acc is the segment being read
RECURSIVE split_parts(_, _)
split_parts(s, acc) ==
    IF s = <<>> THEN (IF acc = <<>> THEN <<>> ELSE <<acc>>)
    ELSE IF Head(s) = "-"
         THEN (IF acc = <<>> THEN <<>> ELSE <<acc>>) \o split_parts(Tail(s), <<>>)
         ELSE split_parts(Tail(s), Append(acc, Head(s)))

\* "-".join(parts)
RECURSIVE join(_)
join(parts) ==
    IF parts = <<>> THEN <<>>
    ELSE IF Len(parts) = 1 THEN parts[1]
    ELSE parts[1] \o <<"-">> \o join(Tail(parts))

\* "-".join(p[:3] for p in parts)
compressed(prefix) ==
    LET parts == split_parts(prefix, <<>>)
    IN  join([k \in DOMAIN parts |-> take(parts[k], SegmentLen)])

\* the prefix cut to 11 characters without compressing its segments
shorten_by_cut(prefix) ==
    IF Len(prefix) > MaxPrefix THEN rstrip(take(prefix, MaxPrefix)) ELSE prefix

\* lines 36-40: the prefix, shortened when it has more than 11 characters
shorten(prefix) ==
    IF Len(prefix) > MaxPrefix
    THEN LET c == compressed(prefix)
         IN  IF Len(c) > MaxPrefix THEN rstrip(take(c, MaxPrefix)) ELSE c
    ELSE prefix

\* the sanitized name, stripped, with no cap on its length
username_uncapped(agent_name) == strip_hyphens(sanitize(agent_name))

\* _showdown_username(agent_name)
showdown_username(agent_name) ==
    LET safe == sanitize(agent_name)
    IN  IF Len(safe) <= MaxUsername THEN strip_hyphens(safe)
        ELSE IF tag_match(safe)
             THEN strip_hyphens(shorten(group1(safe)) \o <<"-">> \o group2(safe))
             ELSE strip_hyphens(take(safe, MaxUsername))

\* the pieces agent names are put together from: model-id segments, a
\* separator, characters outside [a-zA-Z0-9-], a tag as uuid4().hex[:6] gives
\* it, and a 6-letter ending that is not one
Pieces ==
    {<<"m", "i", "s", "t", "r", "a", "l", "-">>,
     <<"3", "b", "-">>,
     <<"-">>,
     <<"X", "_">>,
     <<":">>,
     <<"3", "f", "9", "a", "1", "c">>,
     <<"l", "a", "t", "e", "s", "t">>}

RECURSIVE concat(_)
concat(ps) == IF ps = <<>> THEN <<>> ELSE Head(ps) \o concat(Tail(ps))

AgentNames == {concat(ps) : ps \in SeqsUpTo(Pieces, MaxPieces)}

USERNAME == "_showdown_username"

\* _showdown_username(agent_name)
ShowdownUsername ==
    /\ last.op = "init"
    /\ \E agent_name \in AgentNames :
        last' = [NoObs EXCEPT !.op = USERNAME, !.name = agent_name,
                              !.username = showdown_username(agent_name)]
    /\ UNCHANGED <<agent_vars, run>>

\* names as they reach the runner: MistralAgent names are bare model ids,
\* RandomAgent names end with the instance's tag
PlayerNames ==
    {<<"m", "i", "s", "t", "r", "a", "l", "-", "m", "e", "d", "i", "u", "m", "-",
       "2", "5", "0", "5">>,
     <<"m", "i", "s", "t", "r", "a", "l", "-", "m", "e", "d", "i", "u", "m", "-",
       "2", "5", "0", "8">>,
     <<"m", "i", "s", "t", "r", "a", "l", "-", "s", "m", "a", "l", "l", "-",
       "l", "a", "t", "e", "s", "t">>,
     <<"r", "a", "n", "d", "o", "m", "-", "3", "f", "9", "a", "1", "c">>,
     <<"r", "a", "n", "d", "o", "m", "-", "0", "0", "b", "e", "e", "f">>}

\* _run_async: the account names of p1 and p2, from agent1.name and agent2.name
PlayerUsernames ==
    /\ last.op = "init"
    /\ \E name1 \in PlayerNames, name2 \in PlayerNames :
        last' = [NoObs EXCEPT !.op = "players",
                              !.name = name1, !.username = showdown_username(name1),
                              !.name2 = name2, !.username2 = showdown_username(name2)]
    /\ UNCHANGED <<agent_vars, run>>

NextName ==
    \/ ShowdownUsername
    \/ PlayerUsernames

SpecName == InitParse /\ [][NextName]_vars

----------------------------------------------------------------------------
(* main: the two agents are built *)

Identifiers ==
    {Identifier(head, rest) :
        head \in {"random", "mistral:", "hf:", "local:", ""},
        rest \in {"", "small-latest", "org/model"}}

\* values of uuid4().hex[:6]; two instances of one process are taken to draw
\* different ones
Hex6 == {"3f9a1c", "b07e42", "00d1e5"}

BUILD == "build_agent"

\* main, lines 121-122: agent1 = build_agent(args.p1); agent2 = build_agent(args.p2)
BuildAgents ==
    /\ last.op = "init"
    /\ \E p1 \in Identifiers, p2 \in Identifiers, h1 \in Hex6 :
       \E h2 \in Hex6 \ {h1} :
        LET a1 == build_agent(p1, h1)
            a2 == build_agent(p2, h2)
        IN  last' = [NoObs EXCEPT
                        !.op = BUILD, !.p1 = p1, !.p2 = p2,
                        !.built = IF a1.raised THEN Built(TRUE, NoInstance, NoInstance)
                                  ELSE IF a2.raised
                                  THEN Built(TRUE, a1.agent, NoInstance)
                                  ELSE Built(FALSE, a1.agent, a2.agent)]
    /\ UNCHANGED <<agent_vars, run>>

\* main, line 149: runner.run(agent1, agent2, n_battles=args.n) is called; it
\* is reached only when both build_agent calls returned
MainRun ==
    /\ last.op = BUILD
    /\ ~last.built.raised
    /\ last' = [last EXCEPT !.op = "main: run", !.started = TRUE]
    /\ UNCHANGED <<agent_vars, run>>

\* main, lines 151-153: run has returned, the report is written
MainWrite ==
    /\ last.op = "main: run"
    /\ last' = [last EXCEPT !.op = "main: write_report", !.written = TRUE]
    /\ UNCHANGED <<agent_vars, run>>

NextBuild ==
    \/ BuildAgents
    \/ MainRun
    \/ MainWrite

SpecBuild == InitParse /\ [][NextBuild]_vars

----------------------------------------------------------------------------
(* StateExtractor.extract on whole battles *)

ZeroBoosts == [s \in BoostStats |-> 0]

\* health, fainted flag, status and boosts of the team members
Conditions ==
    {[hp |-> 100, fainted |-> FALSE, status |-> None, boosts |-> ZeroBoosts],
     [hp |-> 0, fainted |-> TRUE, status |-> "BRN",
      boosts |-> [ZeroBoosts EXCEPT !["atk"] = 2, !["evasion"] = -1]]}

TeamMons ==
    {Pokemon(sp, c.hp, c.fainted, c.status, c.boosts, a) :
        sp \in {"pikachu", "eevee", "snorlax"}, c \in Conditions, a \in BOOLEAN}

OppMons ==
    {Pokemon(sp, c.hp, c.fainted, c.status, c.boosts, a) :
        sp \in {"gengar", "mew"}, c \in Conditions, a \in BOOLEAN}

\* teams as the server builds them: no species twice, at most one active unit
IsTeam(team) ==
    /\ \A j, k \in DOMAIN team : j # k => team[j].species # team[k].species
    /\ \A j, k \in DOMAIN team : team[j].active /\ team[k].active => j = k

Teams == {team \in SeqsUpTo(TeamMons, MaxTeam) : IsTeam(team)}

OppTeams == {team \in SeqsUpTo(OppMons, MaxOpp) : IsTeam(team)}

Weathers == {<<>>, <<"HAIL">>, <<"DESOLATELAND", "RAINDANCE">>}

FieldLists == {<<>>, <<"TRICK_ROOM", "GRASSY_TERRAIN", "MUD_SPORT">>}

SideDicts == {<<>>, ("STEALTH_ROCK" :> 1) @@ ("SPIKES" :> 2)}

\* the species the player may switch to: the members neither active nor fainted
switch_species(team) ==
    LET free == SelectSeq(team, LAMBDA mon : ~mon.active /\ ~mon.fainted)
    IN  [k \in DOMAIN free |-> free[k].species]

BattleViews ==
    {BattleView(single, 1, team, opp, w, f, sd, <<>>, has_active(team),
                IF has_active(team) THEN <<"tackle">> ELSE <<>>, switch_species(team)) :
        single \in BOOLEAN, team \in Teams, opp \in OppTeams, w \in Weathers,
        f \in FieldLists, sd \in SideDicts}

EXTRACT == "StateExtractor.extract"

\* StateExtractor.extract(battle)
ExtractorExtract ==
    /\ last.op = "init"
    /\ \E battle \in BattleViews :
        last' = [NoObs EXCEPT !.op = EXTRACT, !.view = battle,
                              !.extracted = extractor_extract(battle)]
    /\ UNCHANGED <<agent_vars, run>>

\* extract(battle) called twice in a row on the same battle object
ExtractTwice ==
    /\ last.op = "init"
    /\ \E battle \in BattleViews :
        LET mid == battle_after(battle)
        IN  last' = [NoObs EXCEPT !.op = "extract twice", !.view = battle,
                                  !.extracted = extractor_extract(battle),
                                  !.extracted_again = extractor_extract(mid),
                                  !.view_after = battle_after(mid)]
    /\ UNCHANGED <<agent_vars, run>>

NextExtract ==
    \/ ExtractorExtract
    \/ ExtractTwice

SpecExtract == InitParse /\ [][NextExtract]_vars

----------------------------------------------------------------------------
(* Properties of the stateless operations (specification SpecParse) *)

\* the action is one of the snapshot's legal actions, or the fixed default
\* when the snapshot has none
Legal(action, state) ==
    \/ action.cls = "MoveAction" /\ action.move_id \in SeqToSet(state.moves)
    \/ action.cls = "SwitchAction" /\ action.switch_to \in SeqToSet(state.switches)
    \/ /\ action = MoveAction("struggle", FALSE)
       /\ state.moves = <<>>
       /\ state.switches = <<>>

\* C1: every action returned by _parse_action, _random_fallback or
\* RandomAgent.choose_action is legal for the snapshot: a move of
\* snapshot.moves, a switch to one of snapshot.switches, or the fixed
\* MoveAction("struggle") when both lists are empty.
C1_ReturnedActionLegal ==
    (/\ last.op \in {"_parse_action", "_random_fallback", "RandomAgent.choose_action"}
     /\ ~last.res.raised)
    => Legal(last.res.action, last.state)

\* _parse_action fell back on a snapshot without moves and switches
C1_Witness ==
    /\ last.op = "_parse_action"
    /\ last.res.fb
    /\ last.state.moves = <<>>
    /\ last.state.switches = <<>>
    /\ last.res.action = MoveAction("struggle", FALSE)

\* C2: _parse_action never raises, whatever the response text.
C2_ParseActionNeverRaises ==
    last.op = "_parse_action" => ~last.res.raised

\* C9: ActionParser.parse returns the order created for the matching entry of
\* battle.available_moves / battle.available_switches when the named move or
\* species is available now, and the controller's random order otherwise.
C9_ParserRevalidates ==
    last.op \in {"ActionParser.parse", "AgentPlayer.choose_move"} =>
        LET a == last.res.action
            b == last.battle
        IN  CASE a.cls = "MoveAction" /\ a.move_id \in SeqToSet(b.available_moves) ->
                    last.order = Order("create_order", a.move_id, a.tera)
              [] a.cls = "SwitchAction" /\ a.switch_to \in SeqToSet(b.available_switches) ->
                    last.order = Order("create_order", a.switch_to, FALSE)
              [] OTHER ->
                    /\ last.order.by = "choose_random_move"
                    /\ last.order.target \in
                         SeqToSet(b.available_moves) \cup SeqToSet(b.available_switches)
                         \cup {"/choose default"}

\* a move that is not available any more got the random order
C9_Witness ==
    /\ last.op = "ActionParser.parse"
    /\ last.res.action = MoveAction("surf", FALSE)
    /\ last.battle.available_moves = <<"tackle">>
    /\ last.order.by = "choose_random_move"

\* C10: a response object naming a legal move with tera true gives a
\* MoveAction for that move, not a fallback, whose tera is false when
\* snapshot.can_tera is false and true when it is true.
C10_TeraFollowsCanTera ==
    (/\ last.op = "_parse_action"
     /\ last.raw.body.k = "obj"
     /\ last.raw.body.obj.action_type = "move"
     /\ last.raw.body.obj.move_id \in SeqToSet(last.state.moves)
     /\ last.raw.body.obj.tera = "true")
    => /\ ~last.res.raised
       /\ ~last.res.fb
       /\ last.res.action = MoveAction(last.raw.body.obj.move_id, last.state.can_tera)

\* tera was asked for while can_tera is false, and the move came back without it
C10_Witness ==
    /\ last.op = "_parse_action"
    /\ last.raw = Raw(FALSE, "obj", JsonObject("move", "surf", Absent, "true"))
    /\ ~last.state.can_tera
    /\ last.res.action = MoveAction("surf", FALSE)
    /\ ~last.res.fb

----------------------------------------------------------------------------
(* Properties of LLMBattleAgent (specifications Spec and SpecThrottle) *)

LastRow == turn_stats[Len(turn_stats)]

\* C3: the row recorded for a decision has used_fallback = true exactly when
\* the returned action came out of the random fallback.
C3_UsedFallbackTellsFallback ==
    (last.op = LLM /\ ~last.res.raised) =>
        /\ Len(turn_stats) > 0
        /\ LastRow.used_fallback = last.res.fb

\* C4: when the backend call raises, choose_action returns normally with a
\* random-fallback action that is legal for the snapshot.
C4_BackendErrorSwallowed ==
    (last.op = LLM /\ last.backend_raised) =>
        /\ ~last.res.raised
        /\ last.res.fb
        /\ Legal(last.res.action, last.state)

\* C5: after k choose_action calls the agent's turn_stats holds k rows.
C5_OneRowPerCall ==
    Len(turn_stats) = calls

----------------------------------------------------------------------------
(* Properties of a run (specification SpecRun) *)

\* C12: in a run with the LLM agent on one side, a decision whose backend call
\* raised is recorded as a row with used_fallback = true, the match does not
\* stall, and the side has sent its order.
C12_RaisingBackendStillPlays ==
    (/\ run.pc # "idle"
     /\ last.op = LLM
     /\ last.backend_raised)
    => /\ run.pc = "battle"
       /\ ~last.res.raised
       /\ Len(turn_stats) > run.rows_before
       /\ LastRow.used_fallback = TRUE
       /\ LastRow.battle_tag = BattleTag(run.matches)

\* the number of result rows with the given winner
rows_with(results, winner) ==
    Cardinality({k \in DOMAIN results : results[k].winner = winner})

\* C13: the report of run(agent1, agent2, n) has n_games = n,
\* p1_wins + p2_wins + draws = n_games, and no count below 0.
C13_ReportCounts ==
    run.pc = "done"
    => /\ run.report.n_games = run.n_battles
       /\ run.report.p1_wins + run.report.p2_wins + run.report.draws = run.report.n_games
       /\ run.report.p1_wins >= 0
       /\ run.report.p2_wins >= 0
       /\ run.report.draws >= 0

\* C14: the result rows are player 1's finished matches in order (winner p1 on
\* a win, p2 on a loss, draw on a tie), there are n_games of them, and the rows
\* per winner number p1_wins, p2_wins and draws.
C14_RowsMatchCounts ==
    run.pc = "done"
    => /\ Len(run.report.results) = Len(run.p1_battles)
       /\ \A k \in DOMAIN run.p1_battles :
            /\ run.report.results[k].n_turns = run.p1_battles[k].turn
            /\ run.report.results[k].winner =
                 CASE run.p1_battles[k].outcome = "win" -> "p1"
                   [] run.p1_battles[k].outcome = "loss" -> "p2"
                   [] OTHER -> "draw"
       /\ Len(run.report.results) = run.report.n_games
       /\ rows_with(run.report.results, "p1") = run.report.p1_wins
       /\ rows_with(run.report.results, "p2") = run.report.p2_wins
       /\ rows_with(run.report.results, "draw") = run.report.draws

----------------------------------------------------------------------------
(* Properties of the report's figures (specification SpecReport) *)

\* the sum of f over the index set S
RECURSIVE sum_over(_, _)
sum_over(f, S) ==
    IF S = {} THEN 0
    ELSE LET k == CHOOSE k \in S : TRUE IN f[k] + sum_over(f, S \ {k})

\* x is the fraction a / b
IsQuotient(x, a, b) == x.den > 0 /\ x.num * b = a * x.den

\* C15: p1_win_rate is p1_wins / n_games when n_games > 0 and 0.0 when
\* n_games = 0; avg_game_length is the mean n_turns of the result rows and 0.0
\* when there is no row.
C15_RatesAndMeans ==
    last.op = WRITE
    => LET r == last.report
           s == last.summary
       IN  /\ r.n_games > 0 => IsQuotient(s.p1_win_rate, r.p1_wins, r.n_games)
           /\ r.n_games = 0 => s.p1_win_rate = Zero
           /\ Len(r.results) > 0 =>
                IsQuotient(s.avg_game_length,
                           sum_over([k \in DOMAIN r.results |-> r.results[k].n_turns],
                                    DOMAIN r.results),
                           Len(r.results))
           /\ Len(r.results) = 0 => s.avg_game_length = Zero

C15_Witness ==
    /\ last.op = WRITE
    /\ last.report.n_games = 2
    /\ last.report.p1_wins = 1
    /\ last.report.p2_wins = 0
    /\ last.summary.p1_win_rate = Float(1, 2)
    /\ Len(last.report.results) = 2
    /\ last.summary.avg_game_length = Float(3, 2)

\* the figures of one side: from the rows of that side's agent name only
SideFigures(r, agent, avg, rate) ==
    LET S == {k \in DOMAIN r.turn_stats : r.turn_stats[k].agent = agent}
        ms == [k \in DOMAIN r.turn_stats |-> r.turn_stats[k].decision_ms]
        fb == [k \in DOMAIN r.turn_stats |-> IF r.turn_stats[k].used_fallback THEN 1 ELSE 0]
    IN  IF S = {}
        THEN avg.none /\ rate.none
        ELSE /\ ~avg.none
             /\ ~rate.none
             /\ IsQuotient(avg, sum_over(ms, S), Cardinality(S))
             /\ IsQuotient(rate, sum_over(fb, S), Cardinality(S))

\* C16: each side's average decision latency and fallback rate are the mean
\* decision_ms and the fraction of used_fallback rows over the turn_stats rows
\* whose agent is that side's agent name, and both are None (not 0) when the
\* side has no such row.
C16_PerSideFigures ==
    last.op = WRITE
    => LET r == last.report
           s == last.summary
       IN  /\ SideFigures(r, r.p1_agent, s.p1_avg_decision_ms, s.p1_fallback_rate)
           /\ SideFigures(r, r.p2_agent, s.p2_avg_decision_ms, s.p2_fallback_rate)

C16_Witness ==
    /\ last.op = WRITE
    /\ last.report.p1_agent # last.report.p2_agent
    /\ Len(last.report.turn_stats) = 2
    /\ \A k \in 1..2 : last.report.turn_stats[k].agent = last.report.p1_agent
    /\ last.report.turn_stats[1].decision_ms # last.report.turn_stats[2].decision_ms
    /\ last.summary.p1_avg_decision_ms = SomeFloat(Float(5, 2))
    /\ last.summary.p2_avg_decision_ms = NoneFloat
    /\ last.summary.p2_fallback_rate = NoneFloat
    /\ ~last.summary.p1_fallback_rate.none

----------------------------------------------------------------------------
(* Properties of _showdown_username (specification SpecName) *)

\* C17: for every agent name the username has at most 18 characters, each an
\* ASCII letter, a digit or a hyphen.
C17_UsernameShortAndSafe ==
    last.op = USERNAME
    => /\ Len(last.username) <= MaxUsername
       /\ \A k \in DOMAIN last.username :
            last.username[k] \in Lower \cup Upper \cup Digits \cup {"-"}

C17_Witness ==
    /\ last.op = USERNAME
    /\ Len(last.name) > MaxUsername
    /\ \E k \in DOMAIN last.name : last.name[k] = ":"
    /\ ~tag_match(sanitize(last.name))
    /\ Len(last.username) = MaxUsername

\* s ends with a hyphen and a tag of six characters of [0-9a-f], the form
\* uuid4().hex[:6] gives the agents' tags
EndsWithTag(s) ==
    /\ Len(s) >= TagLen + 1
    /\ s[Len(s) - TagLen] = "-"
    /\ \A k \in (Len(s) - TagLen + 1)..Len(s) : s[k] \in HexChars

\* p is an initial part of s
IsPrefix(p, s) == Len(p) <= Len(s) /\ p = SubSeq(s, 1, Len(p))

\* u is the prefix of name, shortened: segment k of u is the first three
\* characters of segment k of the prefix (the last one possibly cut), and
\* nothing is cut away when the three-character segments fit in 11 characters
ShortenedPrefix(u, prefix) ==
    LET parts == split_parts(sanitize(prefix), <<>>)
        uparts == split_parts(u, <<>>)
        fits == Len(compressed(sanitize(prefix))) <= MaxPrefix
    IN  /\ Len(u) <= MaxPrefix
        /\ u = join(uparts)
        /\ Len(uparts) <= Len(parts)
        /\ \A k \in DOMAIN uparts :
             IF k < Len(uparts) \/ fits
             THEN uparts[k] = take(parts[k], SegmentLen)
             ELSE IsPrefix(uparts[k], take(parts[k], SegmentLen))
        /\ fits => Len(uparts) = Len(parts)
        /\ ~fits => Len(u) >= MaxPrefix - 1

\* C18: for a name of more than 18 characters that ends with a hyphen and a
\* 6-character tag, the username ends with the unchanged tag, and what stands
\* before it is the part before the tag with its segments compressed to three
\* characters, cut only when that is still longer than 11 characters.
C18_TagKeptPrefixShortened ==
    (/\ last.op = USERNAME
     /\ Len(last.name) > MaxUsername
     /\ EndsWithTag(last.name))
    => LET name == last.name
           u == last.username
           tag == SubSeq(name, Len(name) - TagLen + 1, Len(name))
           prefix == SubSeq(name, 1, Len(name) - TagLen - 1)
       IN  /\ Len(u) >= TagLen
           /\ SubSeq(u, Len(u) - TagLen + 1, Len(u)) = tag
           /\ \/ /\ u = tag
                 /\ split_parts(sanitize(prefix), <<>>) = <<>>
              \/ /\ Len(u) >= TagLen + 2
                 /\ u[Len(u) - TagLen] = "-"
                 /\ ShortenedPrefix(SubSeq(u, 1, Len(u) - TagLen - 1), prefix)

C18_Witness ==
    /\ last.op = USERNAME
    /\ last.name = concat(<<
           <<"3", "b", "-">>,
           <<"m", "i", "s", "t", "r", "a", "l", "-">>,
           <<"m", "i", "s", "t", "r", "a", "l", "-">>,
           <<"m", "i", "s", "t", "r", "a", "l", "-">>,
           <<"3", "f", "9", "a", "1", "c">> >>)
    /\ last.username = <<"3", "b", "-", "m", "i", "s", "-", "m", "i", "s", "-",
                         "3", "f", "9", "a", "1", "c">>

----------------------------------------------------------------------------
(* Properties of the agent registry (specification SpecBuild) *)

\* C19: in a mirrored match-up (both sides built from the same identifier) the
\* two agent instances have different names.
C19_MirroredNamesDiffer ==
    (/\ last.op = BUILD
     /\ ~last.built.raised
     /\ last.p1 = last.p2)
    => last.built.agent1.name # last.built.agent2.name

----------------------------------------------------------------------------
(* Properties of StateExtractor.extract (specification SpecExtract) *)

\* the placeholder unit: health 0, fainted, no status
IsPlaceholder(unit) == unit.hp = 0 /\ unit.fainted = TRUE /\ unit.status = None

\* the bench lists every member of a team that has no active unit
WholeTeamListed(bench, team) ==
    /\ Len(bench) = Len(team)
    /\ \A k \in DOMAIN team :
         /\ bench[k].species = team[k].species
         /\ bench[k].hp = team[k].hp
         /\ bench[k].fainted = team[k].fainted

\* C20: on a single battle with no own active unit or no opponent active unit,
\* extract does not raise, the unit of that side is the placeholder (health 0,
\* fainted, no status), and the benches, weather, terrain, field, side
\* conditions, legal moves and legal switches are produced as for any battle.
C20_NoActiveUnitPlaceholder ==
    (/\ last.op = EXTRACT
     /\ last.view.single
     /\ ~has_active(last.view.team) \/ ~has_active(last.view.opponent_team))
    => LET b == last.view
           s == last.extracted.state
       IN  /\ ~last.extracted.raised
           /\ ~has_active(b.team) =>
                IsPlaceholder(s.active) /\ WholeTeamListed(s.team, b.team)
           /\ ~has_active(b.opponent_team) =>
                IsPlaceholder(s.opp_active) /\ WholeTeamListed(s.opp_team, b.opponent_team)
           /\ s.turn = b.turn
           /\ s.can_tera = b.can_tera
           /\ s.moves = b.available_moves
           /\ s.switches = b.available_switches
           /\ s.weather \in {"none", "rain", "sun", "sand", "snow"}
           /\ (b.weather = <<"HAIL">>) => s.weather = "snow"
           /\ s.terrain \in {"none", "electric", "grassy", "psychic", "misty"}
           /\ ("GRASSY_TERRAIN" \in SeqToSet(b.fields)) => s.terrain = "grassy"
           /\ ("TRICK_ROOM" \in SeqToSet(b.fields)) => s.field = <<"trick_room">>
           /\ s.my_side.sr = ("STEALTH_ROCK" \in DOMAIN b.side_conditions)
           /\ s.opp_side.sr = ("STEALTH_ROCK" \in DOMAIN b.opponent_side_conditions)

C20_Witness ==
    /\ last.op = EXTRACT
    /\ last.view.single
    /\ Len(last.view.team) = 2
    /\ ~has_active(last.view.team)
    /\ has_active(last.view.opponent_team)
    /\ last.view.weather = <<"HAIL">>
    /\ ~last.extracted.raised
    /\ last.extracted.state.active.species = "unknown"
    /\ last.extracted.state.active.fainted
    /\ Len(last.extracted.state.team) = 2
    /\ last.extracted.state.opp_active.species # "unknown"

\* the five stats of the snapshot's boost map
FiveStats == {"atk", "def", "spa", "spd", "spe"}

\* the boost map of a snapshot unit holds the five stats, each with the value
\* of the team member it was read from, 0 without such a member
FiveBoosts(unit, team) ==
    /\ FiveStats \subseteq DOMAIN unit.boosts
    /\ \A s \in FiveStats :
         unit.boosts[s] = IF has_active(team) THEN active_of(team).boosts[s] ELSE 0

\* C21: in every snapshot the boost maps of the own and of the opponent active
\* unit hold attack, defense, special attack, special defense and speed, with
\* 0 for every stat the battle has not set.
C21_BoostsAllFiveStats ==
    (last.op = EXTRACT /\ ~last.extracted.raised)
    => /\ FiveBoosts(last.extracted.state.active, last.view.team)
       /\ FiveBoosts(last.extracted.state.opp_active, last.view.opponent_team)

C21_Witness ==
    /\ last.op = EXTRACT
    /\ ~last.extracted.raised
    /\ has_active(last.view.team)
    /\ active_of(last.view.team).boosts["atk"] = 2
    /\ last.extracted.state.active.boosts["atk"] = 2
    /\ last.extracted.state.active.boosts["spe"] = 0
    /\ ~has_active(last.view.opponent_team)
    /\ last.extracted.state.opp_active.boosts["def"] = 0

Unknown(id) ==
    /\ ~(id.head = "random" /\ id.rest = "")
    /\ id.head \notin {"mistral:", "hf:"}

\* C23: main builds both agents before it calls the runner; when either
\* identifier is unknown build_agent has raised, no run is started and no
\* report is written, and build_agent raises for unknown identifiers only.
C23_UnknownAgentStopsSetup ==
    last.op \in {BUILD, "main: run", "main: write_report"}
    => /\ (Unknown(last.p1) \/ Unknown(last.p2)) <=> last.built.raised
       /\ last.built.raised => ~last.started /\ ~last.written
       /\ last.built.raised => last.op = BUILD
       /\ (last.started \/ last.written) =>
            /\ last.built.agent1 # NoInstance
            /\ last.built.agent2 # NoInstance

C23_Witness ==
    /\ last.op = BUILD
    /\ last.p1 = Identifier("random", "")
    /\ last.p2 = Identifier("local:", "org/model")
    /\ last.built.raised
    /\ last.built.agent1.cls = "RandomAgent"
    /\ ~last.started
    /\ ~last.written

\* the bench lists the non-active members of the team, each once, with its
\* own health, fainted flag and status, and does not list the active unit
IsBenchOf(bench, team) ==
    /\ Len(bench) = Cardinality({k \in DOMAIN team : ~team[k].active})
    /\ \A k \in DOMAIN team :
         LET rows == {j \in DOMAIN bench : bench[j].species = team[k].species}
         IN  IF team[k].active
             THEN rows = {}
             ELSE /\ Cardinality(rows) = 1
                  /\ \A j \in rows :
                       /\ bench[j].hp = team[k].hp
                       /\ bench[j].fainted = team[k].fainted

\* C24: in every snapshot the own bench is the player's team without the
\* active unit, every other member listed exactly once, and the opponent bench
\* is the same over the opponent's revealed units (the members of a team have
\* different species, as the server's team generator makes them).
C24_BenchExcludesActive ==
    (last.op = EXTRACT /\ ~last.extracted.raised)
    => /\ IsBenchOf(last.extracted.state.team, last.view.team)
       /\ IsBenchOf(last.extracted.state.opp_team, last.view.opponent_team)

C24_Witness ==
    /\ last.op = EXTRACT
    /\ ~last.extracted.raised
    /\ Len(last.view.team) = 2
    /\ last.view.team[1].active
    /\ Len(last.extracted.state.team) = 1
    /\ last.extracted.state.team[1].species = last.view.team[2].species
    /\ Len(last.view.opponent_team) = 2
    /\ last.view.opponent_team[2].active
    /\ Len(last.extracted.state.opp_team) = 1
    /\ last.extracted.state.opp_team[1].species = last.view.opponent_team[1].species

----------------------------------------------------------------------------
(* More properties of _showdown_username (specification SpecName) *)

\* C30: two agents whose names differ get different account names for
\* player 1 and player 2.
C30_DifferentNamesDifferentUsernames ==
    (last.op = "players" /\ last.name # last.name2)
    => last.username # last.username2

\* the same for two names that are different after the first 18 characters
\* are taken
C30_NamesDifferingEarly ==
    (/\ last.op = "players"
     /\ take(last.name, MaxUsername) # take(last.name2, MaxUsername))
    => last.username # last.username2

----------------------------------------------------------------------------
(* More properties of LLMBattleAgent (specification SpecThrottle) *)

----------------------------------------------------------------------------
(* More properties of a run (specification SpecRun) *)

\* the matches run() has to play
n_matches(r) == IF r.n_battles > 0 THEN r.n_battles ELSE 0

\* C25: run() plays its matches one after another: at most one match is in
\* flight, a match is requested only when every earlier match of the run has
\* completed and, except for the first, after one pacing delay more, and the
\* report is there only when all the matches have completed.
C25_MatchesSequentialAndPaced ==
    /\ run.in_flight \in {0, 1}
    /\ run.pc \in {"battle", "stalled"}
       => /\ run.in_flight = 1
          /\ run.i < run.n_battles
          /\ Len(run.p1_battles) = run.i
          /\ run.sleeps = run.i
    /\ run.pc = "sleep"
       => /\ run.in_flight = 0
          /\ run.i > 0 /\ run.i < run.n_battles
          /\ Len(run.p1_battles) = run.i
          /\ run.sleeps = run.i - 1
    /\ run.pc = "done"
       => /\ run.in_flight = 0
          /\ Len(run.p1_battles) = n_matches(run)
          /\ run.sleeps = (IF n_matches(run) > 0 THEN n_matches(run) - 1 ELSE 0)
          /\ run.report # NoReport
    /\ run.pc # "done" => run.report = NoReport

C25_Witness ==
    /\ run.pc = "done"
    /\ run.n_battles = 2
    /\ Len(run.p1_battles) = 2
    /\ run.sleeps = 1
    /\ run.report.n_games = 2

\* the rows the agents of the run have appended since run() was called (a
\* RandomAgent appends none)
rows_of_run ==
    IF "llm" \in {run.agent1.kind, run.agent2.kind}
    THEN SubSeq(turn_stats, run.rows_before + 1, Len(turn_stats))
    ELSE <<>>

\* C28: the turn_stats of the report run() returns are the rows the two agents
\* appended during the matches of that run, each once, also for an agent
\* used in an earlier run and for one instance on both sides.
C28_ReportRowsOfThisRun ==
    run.pc = "done" => run.report.turn_stats = rows_of_run

\* the same for runs whose LLM agent is on one side only and has no row of an
\* earlier run
C28_FreshAgentOnOneSide ==
    (/\ run.pc = "done"
     /\ run.agent1 # run.agent2
     /\ run.rows_before = 0)
    => run.report.turn_stats = rows_of_run

----------------------------------------------------------------------------
(* finetune/scraper.py: threads in fetch_pokemon_data and fetch_move_data *)

\* the variables the scraper leaves alone
not_scraper == <<now, throttle_s, last_call_end, current_tag, last_exchange,
                 turn_stats, calls, exch_tag, other, run, last>>

\* a lookup function that does not look at the cache again under the lock
recheck_skipped(cache, key) == FALSE

\* "if key in pokemon_cache" inside "with _key_lock(...)"
recheck(cache, key) == key \in DOMAIN cache

\* the caller has its value
returns(s, t, value) ==
    LET th == s.threads[t]
    IN  [s EXCEPT !.threads[t] = IdleThread,
                  !.returned[th.table][th.key] = @ \cup {value}]

\* fetch_*_data(name) up to the first look at the cache: a hit returns
Fetch(t) ==
    /\ scraper.threads[t].pc = "idle"
    /\ scraper.fetches < MaxFetches
    /\ \E tb \in Tables, name \in ScrapeNames :
        LET key == normalize_name(name)
            s == [scraper EXCEPT !.fetches = @ + 1,
                                 !.threads[t] = Thread("key_lock", tb, key, NoValue, NoValue)]
        IN  scraper' = IF key \in DOMAIN scraper.cache[tb]
                       THEN returns(s, t, scraper.cache[tb][key])
                       ELSE s
    /\ UNCHANGED not_scraper

\* _key_lock(locks, key): under _meta_lock, the key's lock object is made if
\* there is none
KeyLock(t) ==
    LET th == scraper.threads[t]
    IN  /\ th.pc = "key_lock"
        /\ scraper' = [scraper EXCEPT !.locks[th.table] = @ \cup {th.key},
                                      !.threads[t].pc = "acquire"]
        /\ UNCHANGED not_scraper

\* "with <the key's lock>": entered when no thread holds it
Acquire(t) ==
    LET th == scraper.threads[t]
    IN  /\ th.pc = "acquire"
        /\ th.key \notin scraper.held[th.table]
        /\ scraper' = [scraper EXCEPT !.held[th.table] = @ \cup {th.key},
                                      !.threads[t].pc = "locked"]
        /\ UNCHANGED not_scraper

\* the second look at the cache: a hit returns and leaves the with block, a
\* miss enters the try block and sends the request
Recheck(t) ==
    LET th == scraper.threads[t]
    IN  /\ th.pc = "locked"
        /\ scraper' =
              IF recheck(scraper.cache[th.table], th.key)
              THEN returns([scraper EXCEPT !.held[th.table] = @ \ {th.key}], t,
                           scraper.cache[th.table][th.key])
              ELSE [scraper EXCEPT !.threads[t].pc = "request",
                                   !.lookups[th.table][th.key] = @ + 1]
        /\ UNCHANGED not_scraper

\* the rest of the try block: the answers arrive, result is built from them
\* or is the placeholder
Respond(t) ==
    LET th == scraper.threads[t]
    IN  /\ th.pc = "request"
        /\ \E r1 \in Responses(th.table), r2 \in Responses(th.table) :
            LET result == IF th.table = "pokemon" THEN pokemon_lookup(r1, r2)
                                                  ELSE move_lookup(r1)
                raised == IF th.table = "pokemon" /\ r1.status = "404"
                          THEN r2.status # "200" ELSE r1.status # "200"
            IN  scraper' = [scraper EXCEPT
                              !.threads[t].pc = "store",
                              !.threads[t].result = result,
                              !.failed[th.table] = IF raised THEN @ \cup {th.key} ELSE @]
        /\ UNCHANGED not_scraper

\* pokemon_cache[key] = result
Store(t) ==
    LET th == scraper.threads[t]
    IN  /\ th.pc = "store"
        /\ scraper' = [scraper EXCEPT
                          !.cache[th.table] = (th.key :> th.result) @@ @,
                          !.writes[th.table][th.key] = @ + 1,
                          !.threads[t].pc = "release"]
        /\ UNCHANGED not_scraper

\* the with block is left
Release(t) ==
    LET th == scraper.threads[t]
    IN  /\ th.pc = "release"
        /\ scraper' = [scraper EXCEPT !.held[th.table] = @ \ {th.key},
                                      !.threads[t].pc = "return"]
        /\ UNCHANGED not_scraper

\* return pokemon_cache[key]
Return(t) ==
    LET th == scraper.threads[t]
    IN  /\ th.pc = "return"
        /\ scraper' = returns(scraper, t, scraper.cache[th.table][th.key])
        /\ UNCHANGED not_scraper

NextScrape ==
    \E t \in Threads :
        \/ Fetch(t)
        \/ KeyLock(t)
        \/ Acquire(t)
        \/ Recheck(t)
        \/ Respond(t)
        \/ Store(t)
        \/ Release(t)
        \/ Return(t)

SpecScrape == InitParse /\ [][NextScrape]_vars

\* the threads inside the try block for the key of a table
looking_up(tb, key) ==
    {t \in Threads : /\ scraper.threads[t].pc = "request"
                     /\ scraper.threads[t].table = tb
                     /\ scraper.threads[t].key = key}

\* C27: for every cache and key, whatever names the threads ask with and
\* however they interleave: at most one thread is in the remote lookup at a
\* time, the lookup is made at most once, the entry is written at most once
\* and is the placeholder when the lookup failed, and every caller has
\* returned the entry of the cache.
C27_OneLookupPerKey ==
    \A tb \in Tables, key \in ScrapeKeys :
        /\ Cardinality(looking_up(tb, key)) <= 1
        /\ scraper.lookups[tb][key] <= 1
        /\ scraper.writes[tb][key] <= 1
        /\ Cardinality(scraper.returned[tb][key]) <= 1
        /\ scraper.returned[tb][key] # {}
           => /\ key \in DOMAIN scraper.cache[tb]
              /\ scraper.returned[tb][key] = {scraper.cache[tb][key]}
        /\ (key \in scraper.failed[tb] /\ key \in DOMAIN scraper.cache[tb])
           => scraper.cache[tb][key] = placeholder(tb)

\* two threads asked for one pokemon under two names; the one lookup failed,
\* and both have the placeholder
C27_Witness ==
    LET key == normalize_name(<<"a", ".">>)
    IN  /\ scraper.fetches >= 2
        /\ \A t \in Threads : scraper.threads[t].pc = "idle"
        /\ scraper.lookups["pokemon"][key] = 1
        /\ scraper.writes["pokemon"][key] = 1
        /\ key \in scraper.failed["pokemon"]
        /\ scraper.returned["pokemon"][key] = {PokemonPlaceholder}
        /\ scraper.locks["pokemon"] = {key}

----------------------------------------------------------------------------
(* Two agent instances in one match (specification SpecPair) *)

====
